---- MODULE Spec2Model ----
(***************************************************************************)
(* The spreadsheet-to-program pipeline of server/lib/programParser.ts      *)
(* (src/unnamed/part_001): parseProgramSpreadsheet fans one                *)
(* parsePhaseWithOpenAI call out per sheet and joins them with             *)
(* Promise.all; each call retries rate-limited requests, then repairs the  *)
(* model's exercises (validateWarmupSets, validateWorkingSets,             *)
(* validateRPE), labels supersets and renumbers exerciseOrder.             *)
(*                                                                         *)
(* Text is a sequence of one-character strings, so that parseInt,          *)
(* parseFloat, String.match, toLowerCase and includes are computed the way *)
(* JavaScript computes them.  A JavaScript value is a record               *)
(* [t, b, n, d, s]: its type tag, and per tag a boolean b, a number n/d    *)
(* (d a power of ten) or a text s.                                         *)
(***************************************************************************)
EXTENDS Integers, Sequences, FiniteSets

(***************************************************************************)
(* Bounds of the model.                                                    *)
(***************************************************************************)
\* longest generated text over Alphabet
MaxStrLen == 3
\* generated integers are -MaxNum .. MaxNum + 100
MaxNum == 12
\* most exercises of a generated workout day
MaxExercises == 3
\* most sheets of a workbook
MaxSheets == 2
\* most exercises of a generated workout day the pass is run twice on
MaxAgain == 2
\* most upload requests the routes accept
MaxUploads == 1

(***************************************************************************)
(* JavaScript values.                                                      *)
(***************************************************************************)
Undef == [t |-> "undef", b |-> FALSE, n |-> 0, d |-> 1, s |-> <<>>]
Null == [t |-> "null", b |-> FALSE, n |-> 0, d |-> 1, s |-> <<>>]
Obj == [t |-> "obj", b |-> FALSE, n |-> 0, d |-> 1, s |-> <<>>]
Bool(x) == [t |-> "bool", b |-> x, n |-> 0, d |-> 1, s |-> <<>>]
Dec(k, den) == [t |-> "num", b |-> FALSE, n |-> k, d |-> den, s |-> <<>>]
Num(k) == Dec(k, 1)
Str(chars) == [t |-> "str", b |-> FALSE, n |-> 0, d |-> 1, s |-> chars]

\* ToBoolean: undefined, null, false, 0 and "" are falsy; objects are truthy.
Truthy(v) ==
  CASE v.t = "bool" -> v.b
    [] v.t = "num" -> v.n # 0
    [] v.t = "str" -> v.s # <<>>
    [] v.t = "obj" -> TRUE
    [] OTHER -> FALSE

\* The result of a numeric parse: NaN, or the number n/d.
NaN == [nan |-> TRUE, n |-> 0, d |-> 1]
Number(k, den) == [nan |-> FALSE, n |-> k, d |-> den]

\* Comparisons of a parse result with an integer; every comparison with NaN
\* is false.
Gt(x, k) == ~x.nan /\ x.n > k * x.d
Lt(x, k) == ~x.nan /\ x.n < k * x.d
Ge(x, k) == ~x.nan /\ x.n >= k * x.d
Le(x, k) == ~x.nan /\ x.n <= k * x.d

(***************************************************************************)
(* Text.                                                                   *)
(***************************************************************************)
DigitChars == <<"0", "1", "2", "3", "4", "5", "6", "7", "8", "9">>

IsDigit(c) == \E k \in 1..10 : DigitChars[k] = c

DigitVal(c) == (CHOOSE k \in 1..10 : DigitChars[k] = c) - 1

UpperChars == <<"A", "B", "C", "D", "E", "F", "G", "H", "I", "J", "K", "L", "M",
                "N", "O", "P", "Q", "R", "S", "T", "U", "V", "W", "X", "Y", "Z">>

LowerChars == <<"a", "b", "c", "d", "e", "f", "g", "h", "i", "j", "k", "l", "m",
                "n", "o", "p", "q", "r", "s", "t", "u", "v", "w", "x", "y", "z">>

\* String.prototype.toLowerCase
toLowerCase(str) ==
  [i \in 1..Len(str) |->
     IF \E k \in 1..26 : UpperChars[k] = str[i]
     THEN LowerChars[CHOOSE k \in 1..26 : UpperChars[k] = str[i]]
     ELSE str[i]]

\* String.prototype.includes
includes(str, sub) ==
  \E i \in 1..(Len(str) - Len(sub) + 1) : SubSeq(str, i, i + Len(sub) - 1) = sub

\* The index after the run of decimal digits of str that starts at i.
RECURSIVE DigitRunEnd(_, _)
DigitRunEnd(str, i) ==
  IF i <= Len(str) /\ IsDigit(str[i]) THEN DigitRunEnd(str, i + 1) ELSE i

\* The number written by the digits str[i..j-1] (0 for no digit).
RECURSIVE DigitsValue(_, _, _)
DigitsValue(str, i, j) ==
  IF j <= i THEN 0 ELSE 10 * DigitsValue(str, i, j - 1) + DigitVal(str[j - 1])

RECURSIVE Pow10(_)
Pow10(k) == IF k = 0 THEN 1 ELSE 10 * Pow10(k - 1)

\* The index of the first character of str at or after i that is no white space.
RECURSIVE SkipSpace(_, _)
SkipSpace(str, i) ==
  IF i <= Len(str) /\ str[i] = " " THEN SkipSpace(str, i + 1) ELSE i

RECURSIVE NatToString(_)
NatToString(k) ==
  IF k < 10 THEN <<DigitChars[k + 1]>>
  ELSE NatToString(k \div 10) \o <<DigitChars[(k % 10) + 1]>>

\* The digits of the fraction f/den (f < den), trailing zeros dropped.
RECURSIVE FracToString(_, _)
FracToString(f, den) ==
  IF f = 0 THEN <<>>
  ELSE <<DigitChars[(f \div (den \div 10)) + 1]>>
         \o FracToString(f % (den \div 10), den \div 10)

\* Number.prototype.toString of the non-negative a/den, for magnitudes
\* JavaScript writes without an exponent.
UnsignedToString(a, den) ==
  IF a % den = 0 THEN NatToString(a \div den)
  ELSE NatToString(a \div den) \o <<".">> \o FracToString(a % den, den)

\* Number.prototype.toString
NumberToString(x) ==
  IF x.nan THEN <<"N", "a", "N">>
  ELSE IF x.n < 0 THEN <<"-">> \o UnsignedToString(-x.n, x.d)
  ELSE UnsignedToString(x.n, x.d)

\* ToString of a value, as parseInt and parseFloat apply it to their argument.
JSToString(v) ==
  CASE v.t = "str" -> v.s
    [] v.t = "num" -> NumberToString(Number(v.n, v.d))
    [] v.t = "bool" -> IF v.b THEN <<"t", "r", "u", "e">> ELSE <<"f", "a", "l", "s", "e">>
    [] v.t = "null" -> <<"n", "u", "l", "l">>
    [] v.t = "undef" -> <<"u", "n", "d", "e", "f", "i", "n", "e", "d">>
    [] OTHER -> <<"[", "o", "b", "j", "e", "c", "t", " ", "O", "b", "j", "e", "c", "t", "]">>

Negated(x) == [x EXCEPT !.n = -x.n]

\* The integer written by the digits str[j..e-1]; NaN when there is none.
IntegerBetween(str, j, e) ==
  IF e = j THEN NaN ELSE Number(DigitsValue(str, j, e), 1)

\* The StrDecimalLiteral digits[.digits] or .digits that is str[j..e2-1],
\* e1 being the end of its integer digits; NaN when it has no digit.
DecimalBetween(str, j, e1, e2) ==
  IF e2 > e1 + 1
  THEN Number(DigitsValue(str, j, e1) * Pow10(e2 - e1 - 1) + DigitsValue(str, e1 + 1, e2),
              Pow10(e2 - e1 - 1))
  ELSE IntegerBetween(str, j, e1)

\* The longest decimal literal of str at j, its integer digits ending at e1.
DecimalFrom(str, j, e1) ==
  IF e1 <= Len(str) /\ str[e1] = "."
  THEN DecimalBetween(str, j, e1, DigitRunEnd(str, e1 + 1))
  ELSE IntegerBetween(str, j, e1)

\* parseInt of the text str from index i on, its leading white space skipped:
\* an optional sign, then the longest run of decimal digits.
parseIntFrom(str, i) ==
  IF i <= Len(str) /\ str[i] = "-"
  THEN Negated(IntegerBetween(str, i + 1, DigitRunEnd(str, i + 1)))
  ELSE IF i <= Len(str) /\ str[i] = "+"
  THEN IntegerBetween(str, i + 1, DigitRunEnd(str, i + 1))
  ELSE IntegerBetween(str, i, DigitRunEnd(str, i))

\* parseFloat of the text str from index i on, its leading white space
\* skipped: an optional sign, then the longest decimal literal.
parseFloatFrom(str, i) ==
  IF i <= Len(str) /\ str[i] = "-"
  THEN Negated(DecimalFrom(str, i + 1, DigitRunEnd(str, i + 1)))
  ELSE IF i <= Len(str) /\ str[i] = "+"
  THEN DecimalFrom(str, i + 1, DigitRunEnd(str, i + 1))
  ELSE DecimalFrom(str, i, DigitRunEnd(str, i))

parseIntText(str) == parseIntFrom(str, SkipSpace(str, 1))

parseFloatText(str) == parseFloatFrom(str, SkipSpace(str, 1))

\* parseInt(value), no radix given.  (No text of the model starts with 0x.)
parseInt(v) == parseIntText(JSToString(v))

\* parseFloat(value).  (No text of the model carries an exponent part or
\* spells Infinity.)
parseFloat(v) == parseFloatText(JSToString(v))

\* The index of the first decimal digit of str at or after i (Len(str)+1: none).
RECURSIVE FirstDigit(_, _)
FirstDigit(str, i) ==
  IF i > Len(str) \/ IsDigit(str[i]) THEN i ELSE FirstDigit(str, i + 1)

\* The match that starts at i, its run of digits ending at e1: the fraction
\* belongs to it when a "." and at least one digit follow.
matchBetween(str, i, e1) ==
  IF e1 < Len(str) /\ str[e1] = "." /\ IsDigit(str[e1 + 1])
  THEN SubSeq(str, i, DigitRunEnd(str, e1 + 1) - 1)
  ELSE SubSeq(str, i, e1 - 1)

matchFrom(str, i) ==
  IF i > Len(str) THEN <<>> ELSE matchBetween(str, i, DigitRunEnd(str, i))

\* value.match(/\d+(\.\d+)?/)[0]: the leftmost run of digits with its
\* fraction; <<>> stands for no match.
matchNumber(str) == matchFrom(str, FirstDigit(str, 1))

(***************************************************************************)
(* The Field Validator/Repairer.                                           *)
(***************************************************************************)
\* A date-serial test that never fires.
IsDateSerial_Never(num) == FALSE

\* num > 100: the cell held a spreadsheet date serial.
IsDateSerial(num) == Gt(num, 100)

\* The warmup clamp without its upper bound.
clampWarmupSets_NoUpper(num) ==
  IF IsDateSerial(num) THEN 2
  ELSE IF Lt(num, 0) THEN 0
  ELSE IF num.nan \/ num.n = 0 THEN 0 ELSE num.n

\* validateWarmupSets after `const num = parseInt(value)`; `num || 0` is 0
\* for NaN and for 0.
clampWarmupSets(num) ==
  IF IsDateSerial(num) THEN 2
  ELSE IF Lt(num, 0) THEN 0
  ELSE IF Gt(num, 5) THEN 5
  ELSE IF num.nan \/ num.n = 0 THEN 0 ELSE num.n

validateWarmupSets(value) == clampWarmupSets(parseInt(value))

\* A working-set clamp whose default is its floor.
clampWorkingSets_DefaultFloor(num) ==
  IF IsDateSerial(num) THEN 3
  ELSE IF Lt(num, 1) THEN 1
  ELSE IF Gt(num, 10) THEN 10
  ELSE IF num.nan \/ num.n = 0 THEN 1 ELSE num.n

\* validateWorkingSets after `const num = parseInt(value)`; `num || 3` is 3
\* for NaN (a 0 was clamped to 1 before).
clampWorkingSets(num) ==
  IF IsDateSerial(num) THEN 3
  ELSE IF Lt(num, 1) THEN 1
  ELSE IF Gt(num, 10) THEN 10
  ELSE IF num.nan \/ num.n = 0 THEN 3 ELSE num.n

validateWorkingSets(value) == clampWorkingSets(parseInt(value))

SeeNotes == <<"s", "e", "e", " ", "n", "o", "t", "e", "s">>
NotApplicable == <<"n", "/", "a">>
NA == <<"N", "/", "A">>
Eight == <<"8">>

\* The range test of validateRPE without its upper half.
RpeInRange_NoUpper(num) == Ge(num, 1)

\* num >= 1 && num <= 10
RpeInRange(num) == Ge(num, 1) /\ Le(num, 10)

\* The special-value test of validateRPE without its 'n/a' half.
IsSpecialLower_SeeNotesOnly(lower) == includes(lower, SeeNotes)

\* lower.includes('see notes') || lower === 'n/a', lower = value.toLowerCase()
IsSpecialLower(lower) == includes(lower, SeeNotes) \/ lower = NotApplicable

\* A numeric part that clamps to the range instead of defaulting.
rpeOfNumber_Clamp(num) ==
  IF num.nan THEN Eight
  ELSE IF Gt(num, 10) THEN <<"1", "0">>
  ELSE IF Lt(num, 1) THEN <<"1">>
  ELSE NumberToString(num)

\* validateRPE's "Handle numeric values" part, num = parseFloat(value).
rpeOfNumber(num) ==
  IF ~num.nan /\ Gt(num, 100) THEN Eight
  ELSE IF ~num.nan /\ RpeInRange(num) THEN NumberToString(num)
  ELSE Eight

\* validateRPE's use of a match, num = parseFloat(match[0]).
rpeOfMatch(value, num) ==
  IF RpeInRange(num) THEN NumberToString(num) ELSE rpeOfNumber(parseFloat(value))

\* validateRPE's "Handle string values" part, for text that is not special.
rpeOfText(value, match) ==
  IF match # <<>> THEN rpeOfMatch(value, parseFloatText(match))
  ELSE rpeOfNumber(parseFloat(value))

\* validateRPE, returning text.
validateRPE(value) ==
  IF ~Truthy(value) THEN NA
  ELSE IF value.t = "str" /\ IsSpecialLower(toLowerCase(value.s)) THEN value.s
  ELSE IF value.t = "str" THEN rpeOfText(value, matchNumber(value.s))
  ELSE rpeOfNumber(parseFloat(value))

(***************************************************************************)
(* The Superset & Ordering Pass: the callback parsePhaseWithOpenAI maps    *)
(* over parsed.workoutDays.                                                *)
(*                                                                         *)
(* An exercise of the model response is a record of values; isNull marks a *)
(* null entry of the exercises array.  A day's exercises field is          *)
(* [t, items]: t = "arr" for an array, "undef" when the day has none.      *)
(***************************************************************************)
StaticStretch ==
  <<"S", "t", "a", "t", "i", "c", " ", "S", "t", "r", "e", "t", "c", "h">>

\* x?.exerciseName?.includes('Static Stretch') raises a TypeError when the
\* name is neither absent nor text: a number, a boolean or a plain object has
\* no includes method.
NameThrows(name) == name.t \in {"num", "bool", "obj"}

\* exerciseName?.includes('Static Stretch'), for a name that does not throw.
NameIncludesStretch(name) == name.t = "str" /\ includes(name.s, StaticStretch)

\* const isFollowedByStretch = nextExercise?.exerciseName?.includes(...)
isFollowedByStretch(items, i) ==
  i < Len(items) /\ ~items[i + 1].isNull /\ NameIncludesStretch(items[i + 1].exerciseName)

\* const isStaticStretch = exercise.exerciseName?.includes('Static Stretch')
isStaticStretch(exercise) == NameIncludesStretch(exercise.exerciseName)

\* The label written when the pass keeps whatever the model proposed.
supersetGroupFor_Verbatim(items, i) == items[i].supersetGroup

\* A pass that labels every unlabelled exercise "A1", followed by a stretch
\* or not.
supersetGroupFor_DefaultA1(items, i) ==
  IF Truthy(items[i].supersetGroup) THEN items[i].supersetGroup ELSE Str(<<"A", "1">>)

\* The supersetGroup written for the exercise at i (`supersetGroup || null`).
supersetGroupFor(items, i) ==
  LET sg0 == items[i].supersetGroup
      sg1 == IF isFollowedByStretch(items, i) /\ (~Truthy(sg0) \/ sg0 = Str(<<"A">>))
             THEN Str(<<"A", "1">>) ELSE sg0
      sg2 == IF ~isStaticStretch(items[i]) THEN sg1
             ELSE IF ~Truthy(sg1) \/ sg1 = Str(<<"A">>) THEN Str(<<"A", "2">>)
             ELSE IF sg1 = Str(<<"B">>) THEN Str(<<"B", "2">>)
             ELSE IF sg1 = Str(<<"C">>) THEN Str(<<"C", "2">>)
             ELSE sg1
  IN IF Truthy(sg2) THEN sg2 ELSE Null

\* An exerciseOrder taken from the model response when it carries one.
orderWritten_FromModel(exercise, exerciseOrder) ==
  IF exercise.exerciseOrder.t = "undef" THEN Num(exerciseOrder) ELSE exercise.exerciseOrder

\* exerciseOrder: exerciseOrder++ (the counter, whatever the exercise carried)
orderWritten(exercise, exerciseOrder) == Num(exerciseOrder)

\* An object built from the recomputed fields alone, without `...exercise`.
processedExercise_NoSpread(items, i, exerciseOrder) ==
  [items[i] EXCEPT
     !.exerciseName = Undef,
     !.reps = Undef,
     !.warmupSets = Num(validateWarmupSets(items[i].warmupSets)),
     !.workingSets = Num(validateWorkingSets(items[i].workingSets)),
     !.rpe = Str(validateRPE(items[i].rpe)),
     !.exerciseOrder = orderWritten(items[i], exerciseOrder),
     !.supersetGroup = supersetGroupFor(items, i)]

\* The object pushed to processedExercises: the exercise's own fields, with
\* the repaired and recomputed ones written over them.
processedExercise(items, i, exerciseOrder) ==
  [items[i] EXCEPT
     !.warmupSets = Num(validateWarmupSets(items[i].warmupSets)),
     !.workingSets = Num(validateWorkingSets(items[i].workingSets)),
     !.rpe = Str(validateRPE(items[i].rpe)),
     !.exerciseOrder = orderWritten(items[i], exerciseOrder),
     !.supersetGroup = supersetGroupFor(items, i)]

\* The loop over day.exercises from index i on: [threw, items].
RECURSIVE processFrom(_, _, _, _)
processFrom(items, i, exerciseOrder, processedExercises) ==
  IF i > Len(items) THEN [threw |-> FALSE, items |-> processedExercises]
  ELSE IF items[i].isNull \/ NameThrows(items[i].exerciseName)
          \/ (i < Len(items) /\ ~items[i + 1].isNull
              /\ NameThrows(items[i + 1].exerciseName))
       THEN [threw |-> TRUE, items |-> <<>>]
  ELSE processFrom(items, i + 1, exerciseOrder + 1,
                   Append(processedExercises, processedExercise(items, i, exerciseOrder)))

\* One call of the map callback on a day: a TypeError (threw), or the day with
\* its exercises replaced by the processed ones.
processDay(day) ==
  IF day.isNull \/ day.exercises.t # "arr" THEN [threw |-> TRUE, day |-> day]
  ELSE LET r == processFrom(day.exercises.items, 1, 1, <<>>)
       IN IF r.threw THEN [threw |-> TRUE, day |-> day]
          ELSE [threw |-> FALSE,
                day |-> [day EXCEPT !.exercises = [t |-> "arr", items |-> r.items]]]

(***************************************************************************)
(* Inputs: the values, exercises and days a model response may carry.      *)
(***************************************************************************)
Alphabet == {"0", "1", "5", ".", "-", " ", "a"}

Texts(k) == UNION {[1..m -> Alphabet] : m \in 0..k}

TextSamples ==
  { <<"S", "e", "e", " ", "N", "o", "t", "e", "s">>,
    <<"s", "e", "e", " ", "n", "o", "t", "e", "s", " ", "9">>,
    <<"N", "/", "A">>,
    <<"n", "/", "a">>,
    <<"N", "/", "A", " ">>,
    <<"n", "/", "a", " ", "-", " ", "d", "e", "l", "o", "a", "d">>,
    <<"R", "P", "E", " ", "8">>,
    <<"8", "-", "9">>,
    <<"7", ".", "5">>,
    <<"7", ".", "5", "0">>,
    <<"1", "0", ".", "5">>,
    <<"~", "9", ".", "2", "5">>,
    <<"4", "4", "7", "8", "2">>,
    <<"4", "4", "6", "2", "4">>,
    <<"h", "a", "r", "d">> }

\* Spreadsheet date serials the model echoes (the prompt's own examples).
DateSerials == {44624, 44782}

RawValues ==
  {Undef, Null, Obj, Bool(TRUE), Bool(FALSE)}
    \cup {Num(k) : k \in (-MaxNum .. MaxNum + 100) \cup DateSerials}
    \cup {Dec(k, 10) : k \in {-5, 5, 9, 75, 95, 105, 1005}}
    \cup {Str(str) : str \in Texts(MaxStrLen) \cup TextSamples}

PushUp == <<"P", "u", "s", "h", "-", "u", "p">>
StretchChest == StaticStretch \o <<" ", "-", " ", "C", "h", "e", "s", "t">>
Reps810 == <<"8", "-", "1", "0">>

Exercise(name, group, warmup, working, rpe, order, reps) ==
  [isNull |-> FALSE, exerciseName |-> name, supersetGroup |-> group,
   warmupSets |-> warmup, workingSets |-> working, rpe |-> rpe,
   exerciseOrder |-> order, reps |-> reps]

NullExercise ==
  [Exercise(Undef, Undef, Undef, Undef, Undef, Undef, Undef) EXCEPT !.isNull = TRUE]

Array(items) == [t |-> "arr", items |-> items]
NoArray == [t |-> "undef", items |-> <<>>]

Day(dayName, dayNumber, isRestDay, exercises) ==
  [isNull |-> FALSE, dayName |-> dayName, dayNumber |-> dayNumber,
   isRestDay |-> isRestDay, exercises |-> exercises]

NullDay == [Day(<<>>, Undef, Undef, NoArray) EXCEPT !.isNull = TRUE]

\* Names and labels of generated exercises.
Names == {Str(PushUp), Str(StretchChest), Undef}
Labels == {Undef, Str(<<"A">>), Str(<<"B">>), Str(<<"C">>), Str(<<"B", "1">>)}
Shapes == Names \X Labels

\* What the remaining fields of the exercise at position i hold: nothing; what
\* the prompt asks for; date serials with a duplicated order; out-of-range
\* and non-numeric values with a gapped order.
Payloads == {"absent", "clean", "serial", "gapped"}

ExerciseAt(shape, payload, i) ==
  CASE payload = "absent" ->
         Exercise(shape[1], shape[2], Undef, Undef, Undef, Undef, Undef)
    [] payload = "clean" ->
         Exercise(shape[1], shape[2], Num(2), Num(3), Str(<<"8">>), Num(i), Str(Reps810))
    [] payload = "serial" ->
         Exercise(shape[1], shape[2], Num(44624), Str(<<"4", "4", "6", "2", "4">>),
                  Str(<<"4", "4", "7", "8", "2">>), Num(1), Str(Reps810))
    [] OTHER ->
         Exercise(shape[1], shape[2], Num(-1), Num(0), Dec(75, 10),
                  IF i % 2 = 1 THEN Str(<<"x">>) ELSE Num(2 * i + 3), Null)

(***************************************************************************)
(* The language-model service's answers, and what JSON.parse makes of a    *)
(* response body.                                                          *)
(*                                                                         *)
(* A parsed body is [v, phaseName, phaseNumber, description, workoutDays]: *)
(* v is the top-level value (Obj for an object or an array), the other     *)
(* fields are its properties (Undef / NoArray when it has none).           *)
(***************************************************************************)
Err(name, status) == [name |-> name, status |-> status]
NoError == Err("none", 0)
RateLimitError == Err("RateLimitError", 429)
ServerError == Err("InternalServerError", 500)
\* a network error carries no status
ConnectionError == Err("APIConnectionError", 0)
NoResponseError == Err("No response from OpenAI", 0)
SyntaxError == Err("SyntaxError", 0)
TypeError == Err("TypeError", 0)
FailedError == Err("Failed to parse sheet after retries", 0)

Parsed(v, phaseName, phaseNumber, description, workoutDays) ==
  [v |-> v, phaseName |-> phaseName, phaseNumber |-> phaseNumber,
   description |-> description, workoutDays |-> workoutDays]

Primitive(v) == Parsed(v, Undef, Undef, Undef, NoArray)

BaseName == <<"B", "a", "s", "e">>

CleanDay ==
  Day(<<"P", "u", "s", "h">>, Num(1), Bool(FALSE),
      Array(<<ExerciseAt(<<Str(PushUp), Undef>>, "clean", 1),
              ExerciseAt(<<Str(StretchChest), Undef>>, "clean", 2)>>))

DirtyDay ==
  Day(<<"P", "u", "l", "l">>, Num(2), Bool(FALSE),
      Array(<<ExerciseAt(<<Str(PushUp), Str(<<"B">>)>>, "serial", 1),
              ExerciseAt(<<Undef, Undef>>, "gapped", 2)>>))

RestDay == Day(<<"R", "E", "S", "T">>, Num(7), Bool(TRUE), Array(<<>>))

\* a day flagged as a rest day to which the model attached an exercise
RestDayWithExercise ==
  Day(<<"R", "E", "S", "T">>, Num(7), Bool(TRUE),
      Array(<<ExerciseAt(<<Str(StretchChest), Undef>>, "clean", 1)>>))

\* a rest day the model gave no exercises array
RestDayNoArray == Day(<<"R", "E", "S", "T">>, Num(7), Bool(TRUE), NoArray)

ParsedBodies ==
  { Primitive(Null), Primitive(Num(0)), Primitive(Num(5)), Primitive(Bool(TRUE)),
    Primitive(Obj),
    Parsed(Obj, Str(BaseName), Num(7), Str(<<"d">>), [t |-> "str", items |-> <<>>]),
    Parsed(Obj, Str(BaseName), Num(9), Undef, Array(<<>>)),
    Parsed(Obj, Str(BaseName), Num(9), Str(<<"d">>), Array(<<CleanDay, RestDay>>)),
    Parsed(Obj, Str(<<>>), Undef, Undef, Array(<<DirtyDay, RestDayWithExercise>>)),
    Parsed(Obj, Undef, Num(1), Undef, Array(<<CleanDay, RestDayNoArray>>)) }

\* completion.choices[0]?.message?.content: absent, "", text that is no
\* JSON, or the text of a JSON value.
Content(t, parsed) == [t |-> t, parsed |-> parsed]

Contents ==
  {Content(t, Primitive(Undef)) : t \in {"absent", "empty", "text"}}
    \cup {Content("json", p) : p \in ParsedBodies}

\* What one request ends in: the client throws an error, or a completion.
Responses ==
  {[kind |-> "error", error |-> e, content |-> Content("absent", Primitive(Undef))] :
     e \in {RateLimitError, ServerError, ConnectionError}}
    \cup {[kind |-> "content", error |-> NoError, content |-> c] : c \in Contents}

(***************************************************************************)
(* parsePhaseWithOpenAI after a response: the retry decision, and the way  *)
(* from the parsed body to the returned phase.                             *)
(***************************************************************************)
\* One attempt more than the code allows.
maxRetries_Four == 3 + 1

\* const maxRetries = 3
maxRetries == 3

\* A retry of whatever error an attempt ended in.
shouldRetry_AnyError(error, retries) == retries < maxRetries - 1

\* error?.status === 429 && retries < maxRetries - 1
shouldRetry(error, retries) == error.status = 429 /\ retries < maxRetries - 1

RECURSIVE Pow2(_)
Pow2(k) == IF k = 0 THEN 1 ELSE 2 * Pow2(k - 1)

\* const waitTime = Math.pow(2, retries) * 1000, in milliseconds
waitTime(retries) == Pow2(retries) * 1000

NoPhase ==
  [phaseName |-> Undef, phaseNumber |-> 0, description |-> Undef, workoutDays |-> <<>>]

\* x || y
OrElse(x, y) == IF Truthy(x) THEN x ELSE y

\* A phaseNumber taken from the model response when it proposes one.
phaseNumberWritten_FromModel(parsed, phaseNumber) ==
  IF parsed.phaseNumber.t = "num" THEN parsed.phaseNumber.n ELSE phaseNumber

\* The phaseNumber of a returned phase: the parameter, never parsed.phaseNumber.
phaseNumberWritten(parsed, phaseNumber) == phaseNumber

\* parsed.workoutDays.map(callback): [threw, days]; a callback that throws
\* ends the map.
RECURSIVE mapDays(_, _, _), mapDaysStep(_, _, _, _)
mapDays(days, i, validated) ==
  IF i > Len(days) THEN [threw |-> FALSE, days |-> validated]
  ELSE mapDaysStep(days, i, validated, processDay(days[i]))

\* The map after its callback ended in r on days[i].
mapDaysStep(days, i, validated, r) ==
  IF r.threw THEN [threw |-> TRUE, days |-> <<>>]
  ELSE mapDays(days, i + 1, Append(validated, r.day))

\* From the end of the retry loop to the return: [threw, error, phase].
finishPhase(sheetName, phaseNumber, parsed, lastError) ==
  IF ~Truthy(parsed.v)
  THEN [threw |-> TRUE, phase |-> NoPhase,
        error |-> IF lastError # NoError THEN lastError ELSE FailedError]
  ELSE IF parsed.workoutDays.t # "arr"
  THEN [threw |-> FALSE, error |-> NoError,
        phase |-> [phaseName |-> Str(sheetName),
                   phaseNumber |-> phaseNumberWritten(parsed, phaseNumber),
                   description |-> OrElse(parsed.description, Null),
                   workoutDays |-> <<>>]]
  ELSE LET m == mapDays(parsed.workoutDays.items, 1, <<>>)
       IN IF m.threw THEN [threw |-> TRUE, phase |-> NoPhase, error |-> TypeError]
          ELSE [threw |-> FALSE, error |-> NoError,
                phase |-> [phaseName |-> OrElse(parsed.phaseName, Str(sheetName)),
                           phaseNumber |-> phaseNumberWritten(parsed, phaseNumber),
                           description |-> OrElse(parsed.description, Null),
                           workoutDays |-> m.days]]

\* The body of the try block after the awaited call returned: the error it
\* throws (NoError: none; parsed is then the value of JSON.parse).
tryBody(r) ==
  IF r.kind = "error" THEN r.error
  ELSE IF r.content.t \in {"absent", "empty"} THEN NoResponseError
  ELSE IF r.content.t = "text" THEN SyntaxError
  ELSE NoError

(***************************************************************************)
(* Storage (server/storage.ts) and what the upload route writes to it      *)
(* (server/routes.ts, both in src/unnamed/part_004).                       *)
(***************************************************************************)
Users == {"u1", "u2"}

\* the requester of a request that carries no session
NoUser == "anonymous"

\* The middleware of ./replitAuth: a request goes through to the handler
\* when it carries a logged-in user and is answered 401 otherwise.
isAuthenticated(user) == user \in Users

\* The four tables; lastId stands for gen_random_uuid(): every record gets
\* an id no other record has.
EmptyDb ==
  [programs |-> {}, phases |-> {}, workoutDays |-> {}, exercises |-> {}, lastId |-> 0]

createProgram(database, userId) ==
  [database EXCEPT !.lastId = @ + 1,
                   !.programs = @ \cup {[id |-> database.lastId + 1, userId |-> userId]}]

createPhase(database, programId, parsedPhase) ==
  [database EXCEPT !.lastId = @ + 1,
                   !.phases = @ \cup {[id |-> database.lastId + 1,
                                       programId |-> programId,
                                       phaseNumber |-> parsedPhase.phaseNumber]}]

createWorkoutDay(database, phaseId, parsedDay) ==
  [database EXCEPT !.lastId = @ + 1,
                   !.workoutDays = @ \cup {[id |-> database.lastId + 1,
                                            phaseId |-> phaseId,
                                            dayNumber |-> parsedDay.dayNumber,
                                            isRestDay |-> parsedDay.isRestDay]}]

\* The object the upload route builds from a parsed exercise (lines 259-273).
exerciseData(parsedExercise, workoutDayId) ==
  [workoutDayId |-> workoutDayId,
   exerciseName |-> parsedExercise.exerciseName,
   warmupSets |-> OrElse(parsedExercise.warmupSets, Num(0)),
   workingSets |-> parsedExercise.workingSets,
   reps |-> parsedExercise.reps,
   rpe |-> OrElse(parsedExercise.rpe, Null),
   notes |-> Null,
   supersetGroup |-> OrElse(parsedExercise.supersetGroup, Null),
   exerciseOrder |-> parsedExercise.exerciseOrder]

\* insertExerciseSchema.safeParse(data).success: the columns that are
\* notNull must be there with their type (text, or a whole number), the
\* others may be null.
SchemaAccepts(data) ==
  /\ data.exerciseName.t = "str"
  /\ data.reps.t = "str"
  /\ \A v \in {data.workingSets, data.exerciseOrder, data.warmupSets} :
       v.t = "num" /\ v.n % v.d = 0
  /\ \A v \in {data.rpe, data.supersetGroup} : v.t \in {"str", "null"}

createExercise(database, data) ==
  [database EXCEPT !.lastId = @ + 1,
                   !.exercises = @ \cup {[id |-> database.lastId + 1,
                                          workoutDayId |-> data.workoutDayId,
                                          exerciseOrder |-> data.exerciseOrder,
                                          supersetGroup |-> data.supersetGroup,
                                          notes |-> data.notes]}]

getExercisesByWorkoutDayId(database, workoutDayId) ==
  {e \in database.exercises : e.workoutDayId = workoutDayId}

getWorkoutDaysByProgramId(database, programId) ==
  {d \in database.workoutDays :
     \E ph \in database.phases : ph.programId = programId /\ d.phaseId = ph.id}

\* deleteProgram: the exercises of the days of the program's phases, the
\* days, the phases, the program.
deleteProgram(database, id) ==
  [database EXCEPT
     !.exercises = {e \in @ : \A d \in getWorkoutDaysByProgramId(database, id) :
                                e.workoutDayId # d.id},
     !.workoutDays = @ \ getWorkoutDaysByProgramId(database, id),
     !.phases = {ph \in @ : ph.programId # id},
     !.programs = {p \in @ : p.id # id}]

updateExercise(database, id, updates) ==
  [database EXCEPT
     !.exercises = {IF e.id = id THEN [e EXCEPT !.notes = updates] ELSE e : e \in @}]

deleteExercise(database, id) ==
  [database EXCEPT !.exercises = {e \in @ : e.id # id}]

\* The storage calls the upload route makes for a parsed program after
\* createProgram, in the order of its loops (lines 235-287): a day's
\* exercises are stored unless it is a rest day or has no exercises.
Op(kind, parsedPhase, parsedDay, parsedExercise) ==
  [kind |-> kind, phase |-> parsedPhase, day |-> parsedDay, exercise |-> parsedExercise]

exerciseOps(parsedDay) ==
  IF ~Truthy(parsedDay.isRestDay) /\ parsedDay.exercises.t = "arr"
  THEN [i \in 1..Len(parsedDay.exercises.items) |->
          Op("exercise", NoPhase, NullDay, parsedDay.exercises.items[i])]
  ELSE <<>>

RECURSIVE dayOps(_, _), phaseOps(_, _)
dayOps(days, i) ==
  IF i > Len(days) THEN <<>>
  ELSE <<Op("day", NoPhase, days[i], NullExercise)>>
         \o exerciseOps(days[i]) \o dayOps(days, i + 1)

phaseOps(phases, k) ==
  IF k > Len(phases) THEN <<>>
  ELSE <<Op("phase", phases[k], NullDay, NullExercise)>>
         \o dayOps(phases[k].workoutDays, 1) \o phaseOps(phases, k + 1)

\* The upload handler between two of its awaits.
NoUpload ==
  [pc |-> "idle", user |-> NoUser, programId |-> 0, phaseId |-> 0, dayId |-> 0,
   parsed |-> <<>>, ops |-> <<>>, totalExercises |-> 0, count |-> 0]

\* A response: its status and the records its body holds.
Body(programs, workoutDays, exercises, totalExercises) ==
  [programs |-> programs, workoutDays |-> workoutDays, exercises |-> exercises,
   totalExercises |-> totalExercises]

NoBody == Body({}, {}, {}, 0)

Reply(route, user, status, body) ==
  [route |-> route, user |-> user, status |-> status, body |-> body]

(***************************************************************************)
(* State.                                                                  *)
(***************************************************************************)
VARIABLES
  sheetNames,   \* workbook.SheetNames, in file order
  pc,           \* per sheet: "idle", "awaiting" (a request is in flight),
                \* "sleeping" (in backoff), "returned" or "thrown"
  retries,      \* per sheet: the local variable retries
  requests,     \* per sheet: how many requests were sent to the service
  sleeps,       \* per sheet: the backoff waits so far, in milliseconds
  responses,    \* per sheet: what its requests ended in, in order
  lastError,    \* per sheet: the local variable lastError
  phase,        \* per sheet: the phase its call returned
  thrown,       \* per sheet: the error its call threw
  settled,      \* the sheets whose call has returned or thrown, in that order
  outcome,      \* the promise parseProgramSpreadsheet returned
  rawValue,     \* the raw field value handed to the validators
  repaired,     \* what the validators made of it
  rawDay,       \* the raw workout day handed to the map callback
  dayResult,    \* what the callback made of it
  dayAgain,     \* what the callback made of its own output
  db,           \* the tables of the database
  upload,       \* the upload request being handled, between its awaits
  reply         \* the last response a route sent

vars ==
  <<sheetNames, pc, retries, requests, sleeps, responses, lastError, phase,
    thrown, settled, outcome, rawValue, repaired, rawDay, dayResult, dayAgain,
    db, upload, reply>>

pipelineVars ==
  <<sheetNames, pc, retries, requests, sleeps, responses, lastError, phase,
    thrown, settled, outcome>>

harnessVars == <<rawValue, repaired, rawDay, dayResult, dayAgain>>

routeVars == <<db, upload, reply>>

Sheets == 1..Len(sheetNames)

\* The k-th sheet's name: "Phase B", "Phase A", then "Phase C", "Phase D", ...
SheetName(k) ==
  <<"P", "h", "a", "s", "e", " ">>
    \o <<IF k = 1 THEN "B" ELSE IF k = 2 THEN "A" ELSE UpperChars[((k - 1) % 26) + 1]>>

Workbook(n) == [k \in 1..n |-> SheetName(k)]

Pending == [state |-> "pending", error |-> NoError, phases |-> <<>>]

NotRepaired ==
  [done |-> FALSE, warmupSets |-> 0, workingSets |-> 0, rpe |-> <<>>,
   exercise |-> NullExercise]

NoDayResult == [done |-> FALSE, threw |-> FALSE, day |-> NullDay]

\* Before parseProgramSpreadsheet is called on a workbook of n sheets.
InitPipeline(n) ==
  /\ sheetNames = Workbook(n)
  /\ pc = [s \in 1..n |-> "idle"]
  /\ retries = [s \in 1..n |-> 0]
  /\ requests = [s \in 1..n |-> 0]
  /\ sleeps = [s \in 1..n |-> <<>>]
  /\ responses = [s \in 1..n |-> <<>>]
  /\ lastError = [s \in 1..n |-> NoError]
  /\ phase = [s \in 1..n |-> NoPhase]
  /\ thrown = [s \in 1..n |-> NoError]
  /\ settled = <<>>
  /\ outcome = [Pending EXCEPT !.state = "idle"]

\* An empty database, and no request handled yet.
InitRoutes ==
  /\ db = EmptyDb
  /\ upload = NoUpload
  /\ reply = Reply("none", NoUser, 0, NoBody)

InitHarness ==
  /\ rawValue = Undef
  /\ repaired = NotRepaired
  /\ rawDay = NullDay
  /\ dayResult = NoDayResult
  /\ dayAgain = NoDayResult

Init ==
  /\ \E n \in 1..MaxSheets : InitPipeline(n)
  /\ InitHarness
  /\ InitRoutes

(***************************************************************************)
(* parseProgramSpreadsheet and the sheets' calls.                          *)
(***************************************************************************)
\* Promise.all in the order in which the calls settled.
joinPhases_CompletionOrder(phases, order) == [k \in 1..Len(order) |-> phases[order[k]]]

\* The array Promise.all resolves to: one value per promise, by position.
joinPhases(phases, order) == [k \in 1..Len(order) |-> phases[k]]

\* An orchestrator that starts the first sheet only.
CallParseProgramSpreadsheet_FirstOnly ==
  /\ outcome.state = "idle"
  /\ pc' = [s \in Sheets |-> IF s = 1 THEN "awaiting" ELSE "idle"]
  /\ requests' = [s \in Sheets |-> IF s = 1 THEN 1 ELSE 0]
  /\ outcome' = Pending
  /\ UNCHANGED <<sheetNames, retries, sleeps, responses, lastError, phase, thrown,
                 settled, harnessVars, routeVars>>

\* workbook.SheetNames.map(...): every call runs to its first await, so the
\* first request of every sheet is sent before anything else happens; then
\* the function awaits Promise.all.
CallParseProgramSpreadsheet ==
  /\ outcome.state = "idle"
  /\ pc' = [s \in Sheets |-> "awaiting"]
  /\ requests' = [s \in Sheets |-> 1]
  /\ outcome' = Pending
  /\ UNCHANGED <<sheetNames, retries, sleeps, responses, lastError, phase, thrown,
                 settled, harnessVars, routeVars>>

\* A join that waits for every call and leaves the failed sheets out of the
\* program, failing only when no sheet came through.
AfterSettle_SkipFailed(s, fin, pcs, phases, order) ==
  IF outcome.state # "pending" THEN outcome
  ELSE IF \E k \in Sheets : pcs[k] \notin {"returned", "thrown"} THEN outcome
  ELSE IF \A k \in Sheets : pcs[k] = "thrown"
       THEN [Pending EXCEPT !.state = "rejected", !.error = fin.error]
  ELSE [Pending EXCEPT !.state = "resolved",
                       !.phases = SelectSeq(phases, LAMBDA ph : ph # NoPhase)]

\* A join that hands over the phases that came through next to the error.
AfterSettle_KeepPhases(s, fin, pcs, phases, order) ==
  IF outcome.state # "pending" THEN outcome
  ELSE IF fin.threw
       THEN [Pending EXCEPT !.state = "rejected", !.error = fin.error,
                            !.phases = SelectSeq(phases, LAMBDA ph : ph # NoPhase)]
  ELSE IF \A k \in Sheets : pcs[k] = "returned"
       THEN [Pending EXCEPT !.state = "resolved", !.phases = joinPhases(phases, order)]
  ELSE outcome

\* The promise of parseProgramSpreadsheet after sheet s settled: Promise.all
\* rejects with the first rejection and resolves when every call has returned.
AfterSettle(s, fin, pcs, phases, order) ==
  IF outcome.state # "pending" THEN outcome
  ELSE IF fin.threw THEN [Pending EXCEPT !.state = "rejected", !.error = fin.error]
  ELSE IF \A k \in Sheets : pcs[k] = "returned"
       THEN [Pending EXCEPT !.state = "resolved", !.phases = joinPhases(phases, order)]
  ELSE outcome

\* Sheet s's call ends: it returns fin.phase or throws fin.error.
Settle(s, fin) ==
  /\ pc' = [pc EXCEPT ![s] = IF fin.threw THEN "thrown" ELSE "returned"]
  /\ phase' = [phase EXCEPT ![s] = fin.phase]
  /\ thrown' = [thrown EXCEPT ![s] = fin.error]
  /\ settled' = Append(settled, s)
  /\ outcome' = AfterSettle(s, fin, pc', phase', settled')

\* The request of sheet s ends in r, and the call runs on to its next await
\* or to its end.
Respond(s, r) ==
  /\ pc[s] = "awaiting"
  /\ responses' = [responses EXCEPT ![s] = Append(@, r)]
  /\ IF tryBody(r) = NoError
     THEN \* parsed = JSON.parse(content); break
          /\ Settle(s, finishPhase(sheetNames[s], s, r.content.parsed, lastError[s]))
          /\ UNCHANGED <<retries, sleeps, lastError, requests>>
     ELSE \* catch (error)
          /\ lastError' = [lastError EXCEPT ![s] = tryBody(r)]
          /\ IF shouldRetry(tryBody(r), retries[s])
             THEN /\ retries' = [retries EXCEPT ![s] = @ + 1]
                  /\ sleeps' = [sleeps EXCEPT ![s] = Append(@, waitTime(retries'[s]))]
                  /\ pc' = [pc EXCEPT ![s] = "sleeping"]
                  /\ UNCHANGED <<phase, thrown, settled, outcome, requests>>
             ELSE /\ Settle(s, [threw |-> TRUE, error |-> tryBody(r), phase |-> NoPhase])
                  /\ UNCHANGED <<retries, sleeps, requests>>
  /\ UNCHANGED <<sheetNames, harnessVars, routeVars>>

\* A timer after which the loop neither sends a request nor throws.
Wake_NoResend(s) ==
  /\ pc[s] = "sleeping"
  /\ pc' = [pc EXCEPT ![s] = "idle"]
  /\ UNCHANGED <<sheetNames, retries, requests, sleeps, responses, lastError, phase,
                 thrown, settled, outcome, harnessVars, routeVars>>

\* Sheet s's backoff timer fires: `continue`, the loop condition, and the next
\* request (or, were the loop over, `throw lastError`).
Wake(s) ==
  /\ pc[s] = "sleeping"
  /\ IF retries[s] < maxRetries
     THEN /\ requests' = [requests EXCEPT ![s] = @ + 1]
          /\ pc' = [pc EXCEPT ![s] = "awaiting"]
          /\ UNCHANGED <<phase, thrown, settled, outcome>>
     ELSE /\ Settle(s, [threw |-> TRUE, error |-> lastError[s], phase |-> NoPhase])
          /\ UNCHANGED requests
  /\ UNCHANGED <<sheetNames, retries, sleeps, responses, lastError,
                 harnessVars, routeVars>>

Next ==
  \/ CallParseProgramSpreadsheet
  \/ \E s \in Sheets : \E r \in Responses : Respond(s, r)
  \/ \E s \in Sheets : Wake(s)

Spec == Init /\ [][Next]_vars

(***************************************************************************)
(* The repair of one raw value: the three validators, and the record the   *)
(* per-day pass pushes for an exercise whose warmupSets, workingSets and   *)
(* rpe all hold that value.                                                *)
(***************************************************************************)
InitRepair ==
  /\ InitPipeline(1)
  /\ rawValue \in RawValues
  /\ repaired = NotRepaired
  /\ rawDay = NullDay
  /\ dayResult = NoDayResult
  /\ dayAgain = NoDayResult
  /\ InitRoutes

Repair ==
  /\ ~repaired.done
  /\ repaired' =
       [done |-> TRUE,
        warmupSets |-> validateWarmupSets(rawValue),
        workingSets |-> validateWorkingSets(rawValue),
        rpe |-> validateRPE(rawValue),
        exercise |-> processedExercise(
                       <<Exercise(Str(PushUp), Undef, rawValue, rawValue, rawValue,
                                  Undef, Undef)>>, 1, 1)]
  /\ UNCHANGED <<rawValue, rawDay, dayResult, dayAgain>>
  /\ UNCHANGED <<pipelineVars, routeVars>>

NextRepair == Repair

SpecRepair == InitRepair /\ [][NextRepair]_vars

(***************************************************************************)
(* The per-day pass on one raw workout day.                                *)
(***************************************************************************)
GeneratedDay(shapes, payload) ==
  Day(<<"P", "u", "s", "h">>, Num(1), Bool(FALSE),
      Array([i \in 1..Len(shapes) |-> ExerciseAt(shapes[i], payload, i)]))

\* Days outside the generated family: a rest day with an exercise attached,
\* a rest day with no exercises array, a null day, a null exercise entry, an
\* exercise whose name is a number.
SpecialDays ==
  { RestDayWithExercise, RestDayNoArray, NullDay,
    Day(<<"P", "u", "l", "l">>, Num(2), Bool(FALSE),
        Array(<<ExerciseAt(<<Str(PushUp), Undef>>, "clean", 1), NullExercise>>)),
    Day(<<"L", "e", "g", "s">>, Num(3), Bool(FALSE),
        Array(<<ExerciseAt(<<Num(5), Undef>>, "clean", 1)>>)) }

\* A day of one exercise whose warmupSets, workingSets and rpe all hold value.
RawValueDay(value) ==
  Day(<<"P", "u", "s", "h">>, Num(1), Bool(FALSE),
      Array(<<Exercise(Str(PushUp), Undef, value, value, value, Undef, Undef)>>))

InitDay ==
  /\ InitPipeline(1)
  /\ rawValue = Undef
  /\ repaired = NotRepaired
  /\ \/ \E m \in 0..MaxExercises : \E shapes \in [1..m -> Shapes] :
          \E payload \in Payloads : rawDay = GeneratedDay(shapes, payload)
     \/ rawDay \in SpecialDays
  /\ dayResult = NoDayResult
  /\ dayAgain = NoDayResult
  /\ InitRoutes

ProcessDay ==
  /\ ~dayResult.done
  /\ dayResult' = [done |-> TRUE, threw |-> processDay(rawDay).threw,
                   day |-> processDay(rawDay).day]
  /\ UNCHANGED <<rawValue, repaired, rawDay, dayAgain>>
  /\ UNCHANGED <<pipelineVars, routeVars>>

NextDay == ProcessDay

SpecDay == InitDay /\ [][NextDay]_vars

(***************************************************************************)
(* The per-day pass run twice: on a raw workout day, then on the day it    *)
(* returned.                                                               *)
(***************************************************************************)
InitAgain ==
  /\ InitPipeline(1)
  /\ rawValue = Undef
  /\ repaired = NotRepaired
  /\ \/ \E m \in 0..MaxAgain : \E shapes \in [1..m -> Shapes] :
          \E payload \in Payloads : rawDay = GeneratedDay(shapes, payload)
     \/ rawDay \in SpecialDays
     \/ \E value \in RawValues : rawDay = RawValueDay(value)
  /\ dayResult = NoDayResult
  /\ dayAgain = NoDayResult
  /\ InitRoutes

ProcessAgain ==
  /\ dayResult.done
  /\ ~dayResult.threw
  /\ ~dayAgain.done
  /\ dayAgain' = [done |-> TRUE, threw |-> processDay(dayResult.day).threw,
                  day |-> processDay(dayResult.day).day]
  /\ UNCHANGED <<rawValue, repaired, rawDay, dayResult>>
  /\ UNCHANGED <<pipelineVars, routeVars>>

NextAgain ==
  \/ ProcessDay
  \/ ProcessAgain

SpecAgain == InitAgain /\ [][NextAgain]_vars

(***************************************************************************)
(* The routes of registerRoutes.  Every handler but the upload's is one    *)
(* step; the upload's is one step per storage call it awaits.              *)
(***************************************************************************)
\* What parseProgramSpreadsheet hands the upload route: a rejection, a
\* program every exercise of which the schema accepts, a program with an
\* exercise that has no name and no reps, and a program with a rest day to
\* which the model attached an exercise.
ParseOutcomes ==
  { [Pending EXCEPT !.state = "rejected", !.error = ServerError],
    [Pending EXCEPT !.state = "resolved",
       !.phases = <<finishPhase(SheetName(1), 1,
                      Parsed(Obj, Str(BaseName), Num(9), Str(<<"d">>),
                             Array(<<CleanDay, RestDay>>)), NoError).phase>>],
    [Pending EXCEPT !.state = "resolved",
       !.phases = <<finishPhase(SheetName(1), 1,
                      Parsed(Obj, Str(<<>>), Undef, Undef,
                             Array(<<DirtyDay, RestDayWithExercise>>)), NoError).phase>>],
    [Pending EXCEPT !.state = "resolved",
       !.phases = <<finishPhase(SheetName(1), 1,
                      Parsed(Obj, Str(BaseName), Num(9), Str(<<"d">>),
                             Array(<<RestDayWithExercise>>)), NoError).phase>>] }

InitUpload ==
  /\ InitPipeline(1)
  /\ InitHarness
  /\ InitRoutes

\* POST /api/programs/upload, to its first storage call: the file is
\* parsed, and the program record created for the requester.
PostProgramsUpload(user, parsedProgram) ==
  /\ upload.pc = "idle"
  /\ upload.count < MaxUploads
  /\ IF ~isAuthenticated(user)
     THEN /\ reply' = Reply("POST /api/programs/upload", user, 401, NoBody)
          /\ UNCHANGED <<db, upload>>
     ELSE IF parsedProgram.state = "rejected"
     THEN /\ reply' = Reply("POST /api/programs/upload", user, 500, NoBody)
          /\ upload' = [upload EXCEPT !.count = @ + 1]
          /\ UNCHANGED db
     ELSE /\ db' = createProgram(db, user)
          /\ upload' = [pc |-> "storing", user |-> user, programId |-> db.lastId + 1,
                        phaseId |-> 0, dayId |-> 0,
                        parsed |-> parsedProgram.phases,
                        ops |-> phaseOps(parsedProgram.phases, 1),
                        totalExercises |-> 0, count |-> upload.count + 1]
          /\ UNCHANGED reply
  /\ UNCHANGED <<pipelineVars, harnessVars>>

\* The upload handler's next storage call, the response after the last
\* one, or the response of the catch block when the schema turns an
\* exercise down.
UploadStep ==
  /\ upload.pc = "storing"
  /\ IF upload.ops = <<>>
     THEN /\ reply' = Reply("POST /api/programs/upload", upload.user, 200,
                            Body({[id |-> upload.programId, userId |-> upload.user]},
                                 {}, {}, upload.totalExercises))
          /\ upload' = [NoUpload EXCEPT !.count = upload.count]
          /\ UNCHANGED db
     ELSE IF Head(upload.ops).kind = "phase"
     THEN /\ db' = createPhase(db, upload.programId, Head(upload.ops).phase)
          /\ upload' = [upload EXCEPT !.ops = Tail(@), !.phaseId = db.lastId + 1]
          /\ UNCHANGED reply
     ELSE IF Head(upload.ops).kind = "day"
     THEN /\ db' = createWorkoutDay(db, upload.phaseId, Head(upload.ops).day)
          /\ upload' = [upload EXCEPT !.ops = Tail(@), !.dayId = db.lastId + 1]
          /\ UNCHANGED reply
     ELSE IF SchemaAccepts(exerciseData(Head(upload.ops).exercise, upload.dayId))
     THEN /\ db' = createExercise(db, exerciseData(Head(upload.ops).exercise, upload.dayId))
          /\ upload' = [upload EXCEPT !.ops = Tail(@), !.totalExercises = @ + 1]
          /\ UNCHANGED reply
     ELSE /\ reply' = Reply("POST /api/programs/upload", upload.user, 500, NoBody)
          /\ upload' = [NoUpload EXCEPT !.count = upload.count]
          /\ UNCHANGED db
  /\ UNCHANGED <<pipelineVars, harnessVars>>

\* GET /api/programs
GetPrograms(user) ==
  /\ reply' = IF ~isAuthenticated(user)
              THEN Reply("GET /api/programs", user, 401, NoBody)
              ELSE Reply("GET /api/programs", user, 200,
                         Body({p \in db.programs : p.userId = user}, {}, {}, 0))
  /\ UNCHANGED <<db, upload, pipelineVars, harnessVars>>

\* DELETE /api/programs/:id
DeleteProgramById(user, id) ==
  /\ IF ~isAuthenticated(user)
     THEN /\ reply' = Reply("DELETE /api/programs/:id", user, 401, NoBody)
          /\ UNCHANGED db
     ELSE IF \A p \in db.programs : p.id # id
     THEN /\ reply' = Reply("DELETE /api/programs/:id", user, 404, NoBody)
          /\ UNCHANGED db
     ELSE IF \E p \in db.programs : p.id = id /\ p.userId # user
     THEN /\ reply' = Reply("DELETE /api/programs/:id", user, 403, NoBody)
          /\ UNCHANGED db
     ELSE /\ db' = deleteProgram(db, id)
          /\ reply' = Reply("DELETE /api/programs/:id", user, 200, NoBody)
  /\ UNCHANGED <<upload, pipelineVars, harnessVars>>

\* GET /api/programs/:id
GetProgramById(user, id) ==
  /\ reply' = IF ~isAuthenticated(user)
              THEN Reply("GET /api/programs/:id", user, 401, NoBody)
              ELSE IF \A p \in db.programs : p.id # id
              THEN Reply("GET /api/programs/:id", user, 404, NoBody)
              ELSE IF \E p \in db.programs : p.id = id /\ p.userId # user
              THEN Reply("GET /api/programs/:id", user, 403, NoBody)
              ELSE Reply("GET /api/programs/:id", user, 200,
                         Body({p \in db.programs : p.id = id},
                              getWorkoutDaysByProgramId(db, id),
                              {e \in db.exercises :
                                 \E d \in getWorkoutDaysByProgramId(db, id) :
                                   e.workoutDayId = d.id}, 0))
  /\ UNCHANGED <<db, upload, pipelineVars, harnessVars>>

\* GET /api/workout-days/:id
GetWorkoutDayById(user, id) ==
  /\ reply' = IF ~isAuthenticated(user)
              THEN Reply("GET /api/workout-days/:id", user, 401, NoBody)
              ELSE IF \A d \in db.workoutDays : d.id # id
              THEN Reply("GET /api/workout-days/:id", user, 404, NoBody)
              ELSE Reply("GET /api/workout-days/:id", user, 200,
                         Body({}, {d \in db.workoutDays : d.id = id},
                              getExercisesByWorkoutDayId(db, id), 0))
  /\ UNCHANGED <<db, upload, pipelineVars, harnessVars>>

\* GET /api/exercises
GetExercises(user) ==
  /\ reply' = Reply("GET /api/exercises", user, 200, Body({}, {}, db.exercises, 0))
  /\ UNCHANGED <<db, upload, pipelineVars, harnessVars>>

\* PATCH /api/exercises/:id, with a body that sets the notes.
PatchExerciseById(user, id) ==
  /\ IF \A e \in db.exercises : e.id # id
     THEN /\ reply' = Reply("PATCH /api/exercises/:id", user, 404, NoBody)
          /\ UNCHANGED db
     ELSE /\ db' = updateExercise(db, id, Str(<<"e">>))
          /\ reply' = Reply("PATCH /api/exercises/:id", user, 200,
                            Body({}, {}, {e \in db'.exercises : e.id = id}, 0))
  /\ UNCHANGED <<upload, pipelineVars, harnessVars>>

\* DELETE /api/exercises/:id
DeleteExerciseById(user, id) ==
  /\ IF \A e \in db.exercises : e.id # id
     THEN /\ reply' = Reply("DELETE /api/exercises/:id", user, 404, NoBody)
          /\ UNCHANGED db
     ELSE /\ db' = deleteExercise(db, id)
          /\ reply' = Reply("DELETE /api/exercises/:id", user, 200, NoBody)
  /\ UNCHANGED <<upload, pipelineVars, harnessVars>>

\* A request comes from either user or carries no session, and names a
\* record of the database or an id no record has (0).
NextUpload ==
  \/ \E user \in Users \cup {NoUser} : \E parsedProgram \in ParseOutcomes :
       PostProgramsUpload(user, parsedProgram)
  \/ UploadStep
  \/ \E user \in Users \cup {NoUser} : GetPrograms(user)
  \/ \E user \in Users \cup {NoUser} : \E id \in 0..db.lastId :
       DeleteProgramById(user, id)
  \/ \E user \in Users \cup {NoUser} : \E id \in 0..db.lastId :
       GetProgramById(user, id)
  \/ \E user \in Users \cup {NoUser} : \E id \in 0..db.lastId :
       GetWorkoutDayById(user, id)
  \/ \E user \in Users \cup {NoUser} : GetExercises(user)
  \/ \E user \in Users \cup {NoUser} : \E id \in 0..db.lastId :
       PatchExerciseById(user, id)
  \/ \E user \in Users \cup {NoUser} : \E id \in 0..db.lastId :
       DeleteExerciseById(user, id)

SpecUpload == InitUpload /\ [][NextUpload]_vars

(***************************************************************************)
(* Properties.                                                             *)
(***************************************************************************)
Last(seq) == seq[Len(seq)]

\* The request ended in a rate-limit error.
IsRateLimited(r) == r.kind = "error" /\ r.error.status = 429

\* The attempt failed otherwise: an error with another status or with none,
\* no content, or content that is no JSON.
IsOtherFailure(r) ==
  \/ r.kind = "error" /\ r.error.status # 429
  \/ r.kind = "content" /\ r.content.t \in {"absent", "empty", "text"}

\* The body parsed as JSON and has no workoutDays array.
LacksWorkoutDays(r) ==
  r.kind = "content" /\ r.content.t = "json" /\ r.content.parsed.workoutDays.t # "arr"

RECURSIVE SumSeq(_)
SumSeq(seq) == IF seq = <<>> THEN 0 ELSE seq[1] + SumSeq(Tail(seq))

\* C1: every workout day the per-day pass returns has as many exercises as
\* the model response gave it, and their exerciseOrder values are 1..N in
\* list order, whatever exerciseOrder values the response carried.
C1_OrderIsDense ==
  (dayResult.done /\ ~dayResult.threw) =>
    /\ Len(dayResult.day.exercises.items) = Len(rawDay.exercises.items)
    /\ \A i \in 1..Len(dayResult.day.exercises.items) :
         dayResult.day.exercises.items[i].exerciseOrder = Num(i)

\* A returned day of at least three exercises whose raw exerciseOrder values
\* were duplicated, and one whose raw values were gapped and non-numeric.
C1_Witness ==
  /\ dayResult.done /\ ~dayResult.threw
  /\ Len(rawDay.exercises.items) >= 3
  /\ rawDay.exercises.items[1].exerciseOrder = rawDay.exercises.items[2].exerciseOrder
  /\ rawDay.exercises.items[1].exerciseOrder = Num(1)
  /\ dayResult.day.exercises.items[3].exerciseOrder = Num(3)

\* C2: for every raw value validateWarmupSets returns an integer in 0..5 and
\* validateWorkingSets an integer in 1..10, and the exercise record built
\* from the value carries exactly these set counts.
C2_SetCountsInRange ==
  repaired.done =>
    /\ repaired.warmupSets \in 0..5
    /\ repaired.workingSets \in 1..10
    /\ repaired.exercise.warmupSets = Num(repaired.warmupSets)
    /\ repaired.exercise.workingSets = Num(repaired.workingSets)

\* A value between 6 and 100 (clamped, not taken for a date serial) was repaired.
C2_Witness ==
  /\ repaired.done
  /\ rawValue = Num(100)
  /\ repaired.warmupSets = 5
  /\ repaired.workingSets = 10

\* Text of the form digits or digits.digits.
IsNumericText(str) ==
  /\ DigitRunEnd(str, 1) > 1
  /\ \/ DigitRunEnd(str, 1) = Len(str) + 1
     \/ /\ str[DigitRunEnd(str, 1)] = "."
        /\ DigitRunEnd(str, 1) < Len(str)
        /\ DigitRunEnd(str, DigitRunEnd(str, 1) + 1) = Len(str) + 1

\* Text that carries a "see notes" or "n/a" phrase, in any letter case.
IsSeeNotesStyle(str) ==
  includes(toLowerCase(str), SeeNotes) \/ includes(toLowerCase(str), NotApplicable)

\* C3: the output of validateRPE is numeric text whose value lies in [1,10],
\* or exactly "N/A", or the unchanged input text of a "see notes"-style value.
C3_RpeOutputClasses ==
  repaired.done =>
    \/ /\ IsNumericText(repaired.rpe)
       /\ Ge(parseFloatText(repaired.rpe), 1)
       /\ Le(parseFloatText(repaired.rpe), 10)
    \/ repaired.rpe = NA
    \/ /\ rawValue.t = "str"
       /\ repaired.rpe = rawValue.s
       /\ IsSeeNotesStyle(rawValue.s)

\* A number in (10,100] was repaired to "8".
C3_Witness ==
  /\ repaired.done
  /\ rawValue = Num(50)
  /\ repaired.rpe = Eight

\* C4: in every program parseProgramSpreadsheet returns, every workout day
\* with isRestDay = true has an empty exercises list.
C4_RestDaysAreEmpty ==
  outcome.state = "resolved" =>
    \A k \in 1..Len(outcome.phases) :
      \A j \in 1..Len(outcome.phases[k].workoutDays) :
        outcome.phases[k].workoutDays[j].isRestDay = Bool(TRUE) =>
          outcome.phases[k].workoutDays[j].exercises.items = <<>>

\* C5: the returned phases have phaseNumber 1..n in sheet position, whatever
\* phase number the model proposes, on both return paths.
C5_PhaseNumberIsPosition ==
  outcome.state = "resolved" =>
    /\ Len(outcome.phases) = Len(sheetNames)
    /\ \A k \in 1..Len(outcome.phases) : outcome.phases[k].phaseNumber = k

\* A returned program of two or more sheets, one answered on the normal path
\* and one on the empty-workoutDays path, both proposing other phase numbers.
C5_Witness ==
  /\ outcome.state = "resolved"
  /\ \E k \in Sheets :
       /\ ~LacksWorkoutDays(Last(responses[k]))
       /\ Last(responses[k]).content.parsed.phaseNumber = Num(9) /\ k # 9
  /\ \E k \in Sheets :
       /\ LacksWorkoutDays(Last(responses[k]))
       /\ Last(responses[k]).content.parsed.phaseNumber = Num(7) /\ k # 7

\* C6: a sheet's call sends at most 3 requests, one per attempt; when its
\* first three attempts all end in a rate-limit error the call throws that
\* error and no 4th request is sent.
C6_AtMostThreeRequests ==
  \A s \in Sheets :
    /\ requests[s] <= 3
    /\ requests[s] = Len(responses[s]) + (IF pc[s] = "awaiting" THEN 1 ELSE 0)
    /\ (Len(responses[s]) >= 3 /\ \A k \in 1..3 : IsRateLimited(responses[s][k])) =>
         /\ pc[s] = "thrown"
         /\ thrown[s] = RateLimitError
         /\ requests[s] = 3

\* A sheet whose three attempts were all rate-limited.
C6_Witness ==
  \E s \in Sheets :
    /\ Len(responses[s]) = 3
    /\ \A k \in 1..3 : IsRateLimited(responses[s][k])
    /\ pc[s] = "thrown"

\* C7: an attempt is followed by another request only if it ended in a
\* rate-limit error and fewer than 3 attempts were made; after any other
\* failure the call has thrown, with no further request and no backoff sleep.
C7_RetryOnlyOnRateLimit ==
  \A s \in Sheets : \A k \in 1..Len(responses[s]) :
    /\ requests[s] > k => (IsRateLimited(responses[s][k]) /\ k < 3)
    /\ IsOtherFailure(responses[s][k]) =>
         /\ pc[s] = "thrown"
         /\ k = Len(responses[s])
         /\ requests[s] = k
         /\ Len(sleeps[s]) = k - 1

\* A sheet that was rate-limited once, retried, and failed on a server error.
C7_Witness ==
  \E s \in Sheets :
    /\ Len(responses[s]) = 2
    /\ IsRateLimited(responses[s][1])
    /\ responses[s][2].error = ServerError
    /\ pc[s] = "thrown"

\* C8: the wait before a sheet's k-th retry is 2^k seconds, and a call whose
\* attempts are all rate-limited until it gives up has slept 2 s, 4 s and
\* 8 s: 14 s in all.
C8_BackoffSchedule ==
  \A s \in Sheets :
    /\ \A k \in 1..Len(sleeps[s]) : sleeps[s][k] = Pow2(k) * 1000
    /\ (pc[s] = "thrown" /\ \A k \in 1..Len(responses[s]) : IsRateLimited(responses[s][k])) =>
         (sleeps[s] = <<2000, 4000, 8000>> /\ SumSeq(sleeps[s]) = 14000)

\* C9: when the body parses as JSON and has no workoutDays array the call
\* returns a phase named after the sheet, numbered by its position, with no
\* workout days.
C9_DegenerateBodyReturnsEmptyPhase ==
  \A s \in Sheets :
    (responses[s] # <<>> /\ LacksWorkoutDays(Last(responses[s]))) =>
      /\ pc[s] = "returned"
      /\ phase[s].phaseName = Str(sheetNames[s])
      /\ phase[s].phaseNumber = s
      /\ phase[s].workoutDays = <<>>

\* C10: in a returned program phases[k] is the phase the k-th sheet's call
\* returned, in whatever order the calls completed.
C10_PhasesInSheetOrder ==
  outcome.state = "resolved" =>
    /\ Len(outcome.phases) = Len(sheetNames)
    /\ \A k \in Sheets : outcome.phases[k] = phase[k]

\* A returned program whose first sheet completed last, after a retry.
C10_Witness ==
  /\ outcome.state = "resolved"
  /\ Len(settled) >= 2
  /\ Last(settled) = 1
  /\ retries[1] > 0

\* C11: at the moment parseProgramSpreadsheet resolves or rejects every
\* sheet's call has settled: none has a request in flight or a backoff sleep
\* pending, so no request is sent after the orchestrator has returned.
C11_AllSettledAtReturn ==
  outcome.state \in {"resolved", "rejected"} =>
    \A s \in Sheets : pc[s] \in {"returned", "thrown"}

\* C12 as stated: parseProgramSpreadsheet fails if and only if every sheet's
\* call fails, and returns a program as soon as one sheet's call succeeds.
C12_FailsOnlyWhenEverySheetFails ==
  (\A s \in Sheets : pc[s] \in {"returned", "thrown"}) =>
    /\ outcome.state = "rejected" <=> \A s \in Sheets : pc[s] = "thrown"
    /\ (\E s \in Sheets : pc[s] = "returned") => outcome.state = "resolved"

\* C12, amended: parseProgramSpreadsheet fails if and only if at least one
\* sheet's call fails, and returns a program if and only if every sheet's
\* call succeeds.
C12_FailsIffSomeSheetFails ==
  /\ outcome.state = "rejected" <=> \E s \in Sheets : pc[s] = "thrown"
  /\ outcome.state = "resolved" <=> \A s \in Sheets : pc[s] = "returned"

\* One sheet's call returned a phase, the other's threw, and the
\* orchestrator failed.
C12_Witness ==
  /\ outcome.state = "rejected"
  /\ Len(sheetNames) = 2
  /\ pc[1] = "returned"
  /\ pc[2] = "thrown"

\* A resolved promise carries one phase per sheet and no error.
IsCompleteProgramOrNone ==
  outcome.state = "resolved" =>
    /\ Len(outcome.phases) = Len(sheetNames)
    /\ \A k \in Sheets : outcome.phases[k] # NoPhase
    /\ outcome.error = NoError

\* A rejected promise carries the error one sheet's call threw, and no phases.
IsSingleErrorOrNone ==
  outcome.state = "rejected" =>
    /\ outcome.phases = <<>>
    /\ outcome.error # NoError
    /\ \E s \in Sheets : outcome.error = thrown[s]

\* C13: the caller of parseProgramSpreadsheet sees exactly one of two
\* outcomes, and that outcome is final: a program with one phase per sheet
\* of the workbook and no error, or a single error (the one a sheet's call
\* threw) and no phases.
C13_CompleteProgramOrSingleError ==
  /\ [](/\ IsCompleteProgramOrNone
         /\ IsSingleErrorOrNone)
  /\ [][outcome.state \in {"resolved", "rejected"} => outcome' = outcome]_vars

\* The orchestrator failed on the first sheet's error and the second
\* sheet's call returned its phase afterwards.
C13_Witness ==
  /\ outcome.state = "rejected"
  /\ settled = <<1, 2>>
  /\ pc[2] = "returned"
  /\ phase[2] # NoPhase
  /\ outcome.phases = <<>>

\* C14: the per-day pass run on its own output returns the same day: it
\* does not throw, and every exercise keeps its warmupSets, workingSets and
\* rpe (the three validators applied to values they returned give them
\* back), its supersetGroup and its exerciseOrder.
C14_PassIsIdempotent ==
  dayAgain.done =>
    /\ ~dayAgain.threw
    /\ dayAgain.day = dayResult.day
    /\ \A i \in 1..Len(dayResult.day.exercises.items) :
         /\ Num(validateWarmupSets(dayResult.day.exercises.items[i].warmupSets))
              = dayResult.day.exercises.items[i].warmupSets
         /\ Num(validateWorkingSets(dayResult.day.exercises.items[i].workingSets))
              = dayResult.day.exercises.items[i].workingSets
         /\ Str(validateRPE(dayResult.day.exercises.items[i].rpe))
              = dayResult.day.exercises.items[i].rpe

\* The pass was run twice on a day whose first pass relabelled a pair and
\* repaired date serials.
C14_Witness ==
  /\ dayAgain.done
  /\ Len(rawDay.exercises.items) = 2
  /\ rawDay.exercises.items[1].warmupSets = Num(44624)
  /\ rawDay.exercises.items[1].supersetGroup = Undef
  /\ dayResult.day.exercises.items[1].supersetGroup = Str(<<"A", "1">>)
  /\ dayResult.day.exercises.items[2].supersetGroup = Str(<<"A", "2">>)
  /\ dayAgain.day.exercises.items[1].warmupSets = Num(2)

\* The users who own the program a workout day or an exercise belongs to.
DayOwners(database, workoutDayId) ==
  {p.userId : p \in {q \in database.programs :
     \E ph \in database.phases : \E d \in database.workoutDays :
       ph.programId = q.id /\ d.phaseId = ph.id /\ d.id = workoutDayId}}

\* C15: a program, workout day or exercise of a program owned by user U is
\* returned, updated or deleted only by a request authenticated as U: no
\* response hands it to an unauthenticated requester or to another user, and
\* no such request changes or removes it.
C15_OnlyOwnerReadsOrChanges ==
  [][/\ \A p \in reply'.body.programs : p.userId = reply'.user
     /\ \A d \in reply'.body.workoutDays : DayOwners(db, d.id) \subseteq {reply'.user}
     /\ \A e \in reply'.body.exercises :
          DayOwners(db, e.workoutDayId) \subseteq {reply'.user}
     /\ \A e \in db.exercises :
          e \notin db'.exercises => DayOwners(db, e.workoutDayId) \subseteq {reply'.user}
     /\ \A p \in db.programs : p \notin db'.programs => p.userId = reply'.user]_vars

\* The exercises of the raw day and of the day the callback returned.
RawItems == rawDay.exercises.items
OutItems == dayResult.day.exercises.items
Returned == dayResult.done /\ ~dayResult.threw

\* The group letter of a label the model proposed: its first character, and
\* "A" when there is no label.
GroupLetter(label) ==
  IF label.t = "str" /\ label.s # <<>> THEN label.s[1] ELSE "A"

\* C16: after the superset pass every exercise whose name contains "Static
\* Stretch" carries the "2"-suffixed label of its group letter ("A2" when the
\* model gave no label or "A", "B2" for "B" or "B1", "C2" for "C"), at
\* every position and whether or not another stretch follows it.
C16_StretchCarriesTwoLabel ==
  Returned =>
    \A i \in 1..Len(OutItems) :
      isStaticStretch(RawItems[i]) =>
        OutItems[i].supersetGroup = Str(<<GroupLetter(RawItems[i].supersetGroup), "2">>)

\* C17: an exercise immediately followed by a Static Stretch entry and that
\* entry come out as one superset: some group letter X with the first
\* labelled X1 and the stretch X2, whatever labels the model proposed.
C17_PairSharesGroupLetter ==
  Returned =>
    \A i \in 1..Len(OutItems) :
      isFollowedByStretch(RawItems, i) =>
        \E X \in {"A", "B", "C"} :
          /\ OutItems[i].supersetGroup = Str(<<X, "1">>)
          /\ OutItems[i + 1].supersetGroup = Str(<<X, "2">>)

\* C18: an exercise that is not a stretch and is immediately followed by
\* one comes out labelled "A1" when the model gave it no label or the bare
\* letter "A", and keeps the model's label otherwise; an unlabelled pair
\* [exercise, stretch] with no further stretch behind it comes out as "A1",
\* "A2".
C18_PartnerBecomesA1 ==
  Returned =>
    \A i \in 1..Len(OutItems) :
      (isFollowedByStretch(RawItems, i) /\ ~isStaticStretch(RawItems[i])) =>
        /\ OutItems[i].supersetGroup =
             IF ~Truthy(RawItems[i].supersetGroup) \/ RawItems[i].supersetGroup = Str(<<"A">>)
             THEN Str(<<"A", "1">>)
             ELSE RawItems[i].supersetGroup
        /\ (/\ ~Truthy(RawItems[i].supersetGroup)
            /\ ~Truthy(RawItems[i + 1].supersetGroup)
            /\ ~isFollowedByStretch(RawItems, i + 1)) =>
             /\ OutItems[i].supersetGroup = Str(<<"A", "1">>)
             /\ OutItems[i + 1].supersetGroup = Str(<<"A", "2">>)

\* An unlabelled pair came out as "A1", "A2", after a partner that kept the
\* label "B1" the model gave it.
C18_Witness ==
  /\ Returned
  /\ Len(RawItems) = 3
  /\ RawItems[1].exerciseName = Str(PushUp)
  /\ RawItems[1].supersetGroup = Undef
  /\ RawItems[2].exerciseName = Str(StretchChest)
  /\ RawItems[2].supersetGroup = Undef
  /\ OutItems[1].supersetGroup = Str(<<"A", "1">>)
  /\ OutItems[2].supersetGroup = Str(<<"A", "2">>)
  /\ RawItems[3].supersetGroup = Str(<<"B", "1">>)

\* C19: an exercise that is no stretch and is not immediately followed by
\* one (the last exercise of a day among them) keeps the supersetGroup the
\* model gave it, or gets null when the model gave none.
C19_OthersKeepTheirLabel ==
  Returned =>
    \A i \in 1..Len(OutItems) :
      (~isStaticStretch(RawItems[i]) /\ ~isFollowedByStretch(RawItems, i)) =>
        OutItems[i].supersetGroup =
          IF Truthy(RawItems[i].supersetGroup) THEN RawItems[i].supersetGroup ELSE Null

\* The last exercise of a day kept "B" and an unlabelled one before it got
\* null, in a day that also has a stretch.
C19_Witness ==
  /\ Returned
  /\ Len(RawItems) = 3
  /\ RawItems[1].exerciseName = Str(StretchChest)
  /\ RawItems[2].exerciseName = Str(PushUp)
  /\ RawItems[2].supersetGroup = Undef
  /\ OutItems[2].supersetGroup = Null
  /\ RawItems[3].exerciseName = Str(PushUp)
  /\ OutItems[3].supersetGroup = Str(<<"B">>)

\* C20: the per-day pass returns as many exercises as it was given, in the
\* same order, each with its fields other than warmupSets, workingSets, rpe,
\* supersetGroup and exerciseOrder unchanged, in a day whose own fields
\* other than exercises are unchanged.
C20_OtherFieldsUnchanged ==
  Returned =>
    /\ Len(OutItems) = Len(RawItems)
    /\ \A i \in 1..Len(OutItems) :
         OutItems[i] = [RawItems[i] EXCEPT
                          !.warmupSets = OutItems[i].warmupSets,
                          !.workingSets = OutItems[i].workingSets,
                          !.rpe = OutItems[i].rpe,
                          !.supersetGroup = OutItems[i].supersetGroup,
                          !.exerciseOrder = OutItems[i].exerciseOrder]
    /\ dayResult.day = [rawDay EXCEPT !.exercises = dayResult.day.exercises]

\* A day of three exercises whose labels, set counts and order numbers the
\* pass rewrote came back with its names and reps in place.
C20_Witness ==
  /\ Returned
  /\ Len(RawItems) = 3
  /\ RawItems[1].warmupSets = Num(44624)
  /\ OutItems[1].warmupSets = Num(2)
  /\ RawItems[1].reps = Str(Reps810)
  /\ OutItems[1].reps = Str(Reps810)
  /\ OutItems[2].exerciseName = Str(StretchChest)
  /\ OutItems[1].supersetGroup # RawItems[1].supersetGroup
  /\ OutItems[3].exerciseOrder # RawItems[3].exerciseOrder

\* C21: validateRPE returns its input unchanged for every text that
\* contains "see notes" or "n/a" in any letter case, whatever surrounds the
\* phrase ("N/A ", "n/a - deload") and whether or not the text has digits.
C21_PhrasesPassThrough ==
  (repaired.done /\ rawValue.t = "str" /\ IsSeeNotesStyle(rawValue.s)) =>
    repaired.rpe = rawValue.s

\* The number validateRPE looks at: the first run of digits (with its
\* fraction) of a text, the value of a number, NaN for anything else.
NumberFound(value) ==
  IF value.t = "str"
  THEN (IF matchNumber(value.s) = <<>> THEN NaN ELSE parseFloatText(matchNumber(value.s)))
  ELSE IF value.t = "num" THEN Number(value.n, value.d)
  ELSE NaN

ParsedInteger == parseInt(rawValue)

\* C23: validateWarmupSets returns 2 when the integer parsed from its input
\* exceeds 100, 0 when there is none, and otherwise that integer clamped to
\* [0,5]; the record {warmupSets: 44624, workingSets: 3, rpe: "44782"}
\* repairs to {warmupSets: 2, workingSets: 3, rpe: "8"}.
C23_WarmupSetsMap ==
  /\ repaired.done =>
       repaired.warmupSets =
         IF ParsedInteger.nan THEN 0
         ELSE IF ParsedInteger.n > 100 THEN 2
         ELSE IF ParsedInteger.n < 0 THEN 0
         ELSE IF ParsedInteger.n > 5 THEN 5
         ELSE ParsedInteger.n
  /\ (repaired.done /\ rawValue = Num(44624)) =>
       /\ repaired.exercise.warmupSets = Num(2)
       /\ validateWorkingSets(Num(3)) = 3
       /\ validateRPE(Str(<<"4", "4", "7", "8", "2">>)) = Eight

\* The serial 44624 was repaired to 2.
C23_Witness ==
  /\ repaired.done
  /\ rawValue = Num(44624)
  /\ repaired.warmupSets = 2
  /\ repaired.exercise.warmupSets = Num(2)

\* C24: validateWorkingSets returns 3 when the integer parsed from its
\* input exceeds 100, 3 when there is none, and otherwise that integer
\* clamped to [1,10].
C24_WorkingSetsMap ==
  repaired.done =>
    repaired.workingSets =
      IF ParsedInteger.nan THEN 3
      ELSE IF ParsedInteger.n > 100 THEN 3
      ELSE IF ParsedInteger.n < 1 THEN 1
      ELSE IF ParsedInteger.n > 10 THEN 10
      ELSE ParsedInteger.n

\* A text with no number in it was repaired to 3, not to the floor 1.
C24_Witness ==
  /\ repaired.done
  /\ rawValue = Str(<<"h", "a", "r", "d">>)
  /\ repaired.workingSets = 3

\* C25: the first request of every sheet is sent before any response is
\* awaited, so all sheets can be in flight together; a sheet that awaits a
\* response can always take it and a sleeping sheet can always wake,
\* whatever the other sheets are doing, and a step of one sheet leaves the
\* position, retries and requests of every other sheet as they were.
C25_SheetsRunConcurrently ==
  /\ [](/\ (outcome.state # "idle") => \A s \in Sheets : requests[s] >= 1
        /\ \A s \in Sheets :
             /\ (pc[s] = "awaiting") => ENABLED (\E r \in Responses : Respond(s, r))
             /\ (pc[s] = "sleeping") => ENABLED Wake(s))
  /\ [][(outcome.state = "idle") => \A s \in Sheets : pc'[s] = "awaiting"]_vars
  /\ [][(outcome.state # "idle") =>
          \E s \in Sheets :
            \A k \in Sheets \ {s} :
              /\ pc'[k] = pc[k]
              /\ retries'[k] = retries[k]
              /\ requests'[k] = requests[k]
              /\ responses'[k] = responses[k]]_vars

\* The second sheet returned its phase while the first was still sleeping
\* in backoff after a rate-limit error.
C25_Witness ==
  /\ Len(sheetNames) = 2
  /\ pc[1] = "sleeping"
  /\ pc[2] = "returned"
  /\ requests[1] = 1
  /\ responses[2] # <<>>

\* The exercises of a parsed program, phase by phase and day by day.
RECURSIVE ParsedExercises(_)
ParsedExercises(parsedPhases) ==
  IF parsedPhases = <<>> THEN <<>>
  ELSE LET days == Head(parsedPhases).workoutDays
           RECURSIVE OfDays(_)
           OfDays(i) == IF i > Len(days) THEN <<>>
                        ELSE (IF days[i].exercises.t = "arr"
                              THEN days[i].exercises.items ELSE <<>>) \o OfDays(i + 1)
       IN OfDays(1) \o ParsedExercises(Tail(parsedPhases))

\* The upload handler's last step: the response after its last storage call.
UploadSucceeds ==
  /\ upload.pc = "storing"
  /\ upload'.pc = "idle"
  /\ reply'.route = "POST /api/programs/upload"
  /\ reply'.status = 200

\* C26: when the upload answers 200, storage holds the program record, one
\* phase record per parsed phase, one workout-day record per parsed day and
\* one exercise record per parsed exercise, each under the record of its
\* parent and with the parsed phaseNumber, exerciseOrder and supersetGroup,
\* and the reported totalExercises is the number of parsed exercises.
C26_StoredAsParsed ==
  [][UploadSucceeds =>
       LET id == upload.programId
           storedPhases == {ph \in db'.phases : ph.programId = id}
           storedDays == getWorkoutDaysByProgramId(db', id)
           storedExercises == {e \in db'.exercises :
                                 \E d \in storedDays : e.workoutDayId = d.id}
           parsedExercises == ParsedExercises(upload.parsed)
       IN /\ Cardinality({p \in db'.programs : p.id = id}) = 1
          /\ Cardinality(storedPhases) = Len(upload.parsed)
          /\ {ph.phaseNumber : ph \in storedPhases}
               = {upload.parsed[k].phaseNumber : k \in 1..Len(upload.parsed)}
          /\ Cardinality(storedDays)
               = SumSeq([k \in 1..Len(upload.parsed) |->
                           Len(upload.parsed[k].workoutDays)])
          /\ Cardinality(storedExercises) = Len(parsedExercises)
          /\ {<<e.exerciseOrder, e.supersetGroup>> : e \in storedExercises}
               = {<<parsedExercises[i].exerciseOrder,
                    OrElse(parsedExercises[i].supersetGroup, Null)>> :
                    i \in 1..Len(parsedExercises)}
          /\ reply'.body.totalExercises = Len(parsedExercises)]_vars

\* C27: a sheet whose model response carries a workoutDays array returns a
\* phase; it never ends in an error, whatever the days and exercises of
\* that array look like.
C27_ArrayResponseNeverThrows ==
  \A s \in Sheets :
    (/\ pc[s] \in {"returned", "thrown"}
     /\ Last(responses[s]).kind = "content"
     /\ Last(responses[s]).content.t = "json"
     /\ Last(responses[s]).content.parsed.workoutDays.t = "arr") =>
      pc[s] = "returned"

\* The upload handler answers with an error from its catch block.
UploadFails ==
  /\ upload.pc = "storing"
  /\ upload'.pc = "idle"
  /\ reply'.route = "POST /api/programs/upload"
  /\ reply'.status = 500

\* C28: when the upload answers with an error status, storage holds no
\* program, phase, workout day or exercise the request created.
C28_FailedUploadLeavesNothing ==
  [][UploadFails =>
       /\ \A p \in db'.programs : p.id # upload.programId
       /\ \A ph \in db'.phases : ph.programId # upload.programId
       /\ \A d \in db'.workoutDays : d.id # upload.dayId
       /\ \A e \in db'.exercises : e.workoutDayId # upload.dayId]_vars

\* C29: storage never holds a phase, workout day or exercise of a program
\* that was deleted: every phase is under a stored program, every workout
\* day under a stored phase, and every exercise under a stored workout day,
\* also when the delete runs while an upload is still writing the program.
C29_NothingOutlivesItsProgram ==
  /\ \A ph \in db.phases : \E p \in db.programs : p.id = ph.programId
  /\ \A d \in db.workoutDays : \E ph \in db.phases : ph.id = d.phaseId
  /\ \A e \in db.exercises : \E d \in db.workoutDays : d.id = e.workoutDayId

\* The sheets' calls under the claim's hypothesis: every request that is
\* out ends in a response or an error, and every backoff timer fires.
SpecLive ==
  /\ Spec
  /\ \A s \in 1..MaxSheets :
       /\ WF_vars(s \in Sheets /\ \E r \in Responses : Respond(s, r))
       /\ WF_vars(s \in Sheets /\ Wake(s))

\* C30: once parseProgramSpreadsheet was called, every sheet's call
\* eventually returns a phase or throws and the function's promise
\* eventually resolves or rejects, whatever responses the requests end in.
C30_EverySheetSettles ==
  (outcome.state = "pending") ~>
    (/\ \A s \in Sheets : pc[s] \in {"returned", "thrown"}
     /\ outcome.state \in {"resolved", "rejected"})

\* Both sheets settled and the program resolved after the first sheet was
\* rate-limited twice and slept twice.
C30_Witness ==
  /\ Len(sheetNames) = 2
  /\ \A s \in Sheets : pc[s] = "returned"
  /\ retries[1] = 2
  /\ Len(sleeps[1]) = 2
  /\ requests[1] = 3
  /\ outcome.state = "resolved"

====
